---- MODULE Spec2Model ----
(***************************************************************************)
(* Model of the 3fs-storage replica: the CRAQ chain (internal/craq), the   *)
(* local block store (internal/storage) and the block service that sits on *)
(* top of both (internal/block).                                           *)
(*                                                                         *)
(* Every exported method holds its receiver's lock from entry to return    *)
(* (c.mu / s.mu with defer Unlock), so one method call is one action.  The *)
(* only code that runs outside a method is the goroutine Chain.Write       *)
(* starts: it sleeps, takes the block's lock and marks one version clean.  *)
(* Each such goroutine is one pending step the scheduler may run at any    *)
(* later time, in any order.                                               *)
(*                                                                         *)
(* Byte slices are sequences of integers; a nil slice is NilBytes.         *)
(* A version's Timestamp is the reading of the clock its Write gets; the   *)
(* CreatedAt and LastModified of the metadata are not modelled.            *)
(***************************************************************************)
EXTENDS Integers, Sequences, FiniteSets, TLC

\* ----------------------------------------------------------------- bounds

\* Payloads are the byte strings <<1>>, <<2,2>>, ... up to this length.
MaxData == 2
\* Chain.Write is not called on a block that already holds this many versions.
MaxVersions == 2
\* Chain.Write is not called while this many clean-marking goroutines sleep.
MaxPending == 2
\* chainLength passed to NewChain.
ChainLength == 3

\* ------------------------------------------------------------------ values

NilBytes == <<-1>>

Payloads == { [i \in 1..n |-> n] : n \in 1..MaxData }

\* Block ids are strings, modelled as sequences of characters.
BlockIDs == { <<"a">>, <<"a", "b">> }

\* The block ids given to the local store: a short one, an id of three
\* characters that is the short one zero-padded, and one whose first two
\* characters are not hex digits.
LocalBlockIDs == { <<"a">>, <<"0", "0", "a">>, <<"b", "l", "k">> }

\* The block id of the writes where one block is looked at alone.
OneBlock == { <<"a">> }

NodeIDs == { "n1", "n2" }

\* The readings of the clock, time.Now().UnixNano(), that a Write can get.
Timestamps == { 1, 2 }

\* One reading of the clock for every Write: nothing in the program reads a
\* version's Timestamp, so where the claims are not about it the clock
\* stands still.
SameInstant == { 1 }

\* The 256 directory names "%02x" of LocalStorage.Initialize, as pairs of
\* hex digits.
HexDigits == { "0", "1", "2", "3", "4", "5", "6", "7", "8", "9",
               "a", "b", "c", "d", "e", "f" }

ShardDirs == { <<x, y>> : x \in HexDigits, y \in HexDigits }

\* --------------------------------------------------------------- metadata

\* sha256.Sum256 as an injective digest: a tag followed by the input.
CalculateChecksum(data) == <<256>> \o data

\* hex.EncodeToString: two hex digits (0..15) per byte.
EncodeToString(bytes) ==
    [i \in 1..(2 * Len(bytes)) |->
        IF i % 2 = 1 THEN bytes[(i + 1) \div 2] \div 16
                     ELSE bytes[i \div 2] % 16]

NewBlockMetadata(data, version) ==
    [Checksum |-> EncodeToString(CalculateChecksum(data)),
     Size     |-> Len(data),
     Version  |-> version]

\* json.Marshal of a BlockMetadata: the checksum's length, the checksum, then
\* size and version.
Marshal(md) == <<Len(md.Checksum)>> \o md.Checksum \o <<md.Size, md.Version>>

\* json.Unmarshal into a BlockMetadata.
Unmarshal(bytes) ==
    [Checksum |-> SubSeq(bytes, 2, 1 + bytes[1]),
     Size     |-> bytes[2 + bytes[1]],
     Version  |-> bytes[3 + bytes[1]]]

NoMetadata == [Checksum |-> <<>>, Size |-> -1, Version |-> -1]

\* ------------------------------------------------------------------- state

VARIABLES
    chain,      \* the craq.Chain: nodes, head, tail, blocks, the *Block
                \* objects the map or a goroutine still points to, and the
                \* clean-marking goroutines that have not run yet
    store,      \* the storage.LocalStorage: shard directories, files, cache
    craqChain,  \* Service.craqChain != nil
    ret         \* the last step: the call and what it returned

vars == <<chain, store, craqChain, ret>>

\* ------------------------------------------------------------ craq.Chain

NoNode == 0

\* c.mu with nobody holding it.
Unlocked == "unlocked"

NewChain ==
    [nodes    |-> <<>>,
     head     |-> NoNode,
     tail     |-> NoNode,
     blocks   |-> <<>>,
     pending  |-> {},
     waking   |-> {},
     orphaned |-> 0,
     mu       |-> Unlocked,
     calls    |-> <<>>]

\* chain.mu is the caller holding c.mu, chain.calls the calls of Chain.Write
\* that have not returned, each with its arguments and the place it is at:
\* "Lock" before c.mu.Lock(), "Append" after it.  A call taken in one step
\* leaves both as they are: it takes c.mu, runs and gives it back.
\*
\* chain.blocks maps a block id to the Versions of its *Block.  A goroutine
\* of Chain.Write holds the *Block it was started for, not the id:
\* chain.pending are the goroutines whose *Block is still the one in the map
\* (block id and nextVersion), chain.orphaned counts those whose *Block
\* Delete has taken out of the map, which nothing can read any more.
\* chain.waking are the goroutines of chain.pending whose sleep is over and
\* which wait in block.mu.Lock(), where the locks are followed one by one.

\* A function with one more (or one changed) entry.
Put(f, k, v) == [x \in DOMAIN f \cup {k} |-> IF x = k THEN v ELSE f[x]]

\* A function without one entry.
Drop(f, k) == [x \in DOMAIN f \ {k} |-> f[x]]

\* The new node linked in with the old tail's IsTail left set.
AppendNodeStaleTail(c, id) ==
    LET n == Len(c.nodes) + 1
        node == [ID |-> id, IsHead |-> n = 1, IsTail |-> TRUE,
                 NextNode |-> NoNode,
                 PrevNode |-> IF n = 1 THEN NoNode ELSE c.tail]
    IN  [c |-> [c EXCEPT
                   !.nodes = Append([i \in 1..Len(c.nodes) |->
                                        IF i = c.tail
                                        THEN [c.nodes[i] EXCEPT !.NextNode = n]
                                        ELSE c.nodes[i]],
                                    node),
                   !.head = 1,
                   !.tail = n],
         err |-> "ok"]

\* Chain.AddNode after its length check: the new node goes to the end of
\* the list.  A *Node is the node's place in c.nodes.
AppendNode(c, id) ==
    IF Len(c.nodes) = 0
    THEN [c |-> [c EXCEPT
                    !.nodes = <<[ID |-> id, IsHead |-> TRUE, IsTail |-> TRUE,
                                 NextNode |-> NoNode, PrevNode |-> NoNode]>>,
                    !.head = 1,
                    !.tail = 1],
          err |-> "ok"]
    ELSE LET n == Len(c.nodes) + 1
             node == [ID |-> id, IsHead |-> FALSE, IsTail |-> TRUE,
                      NextNode |-> NoNode, PrevNode |-> c.tail]
         IN  [c |-> [c EXCEPT
                        !.nodes = Append([c.nodes EXCEPT
                                             ![c.tail].IsTail = FALSE,
                                             ![c.tail].NextNode = n],
                                         node),
                        !.tail = n],
              err |-> "ok"]

\* Chain.AddNode without its length check.
AddNodeUnchecked(c, id) == AppendNode(c, id)

AddNode(c, id) ==
    IF Len(c.nodes) >= ChainLength
    THEN [c |-> c, err |-> "ChainFull"]
    ELSE AppendNode(c, id)

\* Chain.Initialize clearing the block map.
InitializeFresh(c) ==
    IF Len(c.nodes) = 0
    THEN [c |-> c, err |-> "EmptyChain"]
    ELSE [c |-> [c EXCEPT !.blocks = <<>>], err |-> "ok"]

Initialize(c) ==
    IF Len(c.nodes) = 0
    THEN [c |-> c, err |-> "EmptyChain"]
    ELSE [c |-> c, err |-> "ok"]

IsHeadNode(c, nodeID) ==
    IF c.head = NoNode THEN FALSE ELSE c.nodes[c.head].ID = nodeID

IsTailNode(c, nodeID) ==
    IF c.tail = NoNode THEN FALSE ELSE c.nodes[c.tail].ID = nodeID

GetNodeCount(c) == Len(c.nodes)

\* nextVersion of Chain.Write.
\* The increment left out.
NextVersionStale(versions) ==
    IF Len(versions) > 0 THEN versions[Len(versions)].Version ELSE 1

NextVersion(versions) ==
    IF Len(versions) > 0 THEN versions[Len(versions)].Version + 1 ELSE 1

\* The new BlockVersion of Chain.Write.
NewVersion(nextVersion, data, metadata, now) ==
    [Version |-> nextVersion, Data |-> data, Metadata |-> metadata,
     Timestamp |-> now, Clean |-> FALSE]

\* Chain.Write appending and also setting every Timestamp of the block to now.
WriteRestamped(c, blockID, data, metadata, now) ==
    IF c.head = NoNode
    THEN [c |-> c, err |-> "NoHead"]
    ELSE LET versions == IF blockID \in DOMAIN c.blocks
                         THEN c.blocks[blockID] ELSE <<>>
             nextVersion == NextVersion(versions)
             version == NewVersion(nextVersion, data, metadata, now)
             all == Append(versions, version)
         IN  [c |-> [c EXCEPT
                        !.blocks = Put(c.blocks, blockID,
                            [i \in 1..Len(all) |-> [all[i] EXCEPT !.Timestamp = now]]),
                        !.pending = c.pending \cup
                            {[blockID |-> blockID, nextVersion |-> nextVersion]}],
              err |-> "ok"]

\* now: the reading of the clock the call gets.
Write(c, blockID, data, metadata, now) ==
    IF c.head = NoNode
    THEN [c |-> c, err |-> "NoHead"]
    ELSE LET versions == IF blockID \in DOMAIN c.blocks
                         THEN c.blocks[blockID] ELSE <<>>
             nextVersion == NextVersion(versions)
             version == NewVersion(nextVersion, data, metadata, now)
         IN  [c |-> [c EXCEPT
                        !.blocks = Put(c.blocks, blockID, Append(versions, version)),
                        !.pending = c.pending \cup
                            {[blockID |-> blockID, nextVersion |-> nextVersion]}],
              err |-> "ok"]

\* The loop marking its version and resetting the flag of every other one.
MarkCleanOnly(versions, nextVersion) ==
    [i \in 1..Len(versions) |->
        [versions[i] EXCEPT !.Clean = (versions[i].Version = nextVersion)]]

\* The loop of the goroutine of Chain.Write: the first version numbered
\* nextVersion becomes clean.
MarkClean(versions, nextVersion) ==
    LET hits == { i \in 1..Len(versions) : versions[i].Version = nextVersion }
    IN  IF hits = {} THEN versions
        ELSE LET i == CHOOSE j \in hits : \A k \in hits : j <= k
             IN  [versions EXCEPT ![i].Clean = TRUE]

\* The goroutine ending without having marked a version.
CleanGoroutineLost(c, g) == [c EXCEPT !.pending = c.pending \ {g}]

\* The goroutine g of Chain.Write after its sleep.
CleanGoroutine(c, g) ==
    [c EXCEPT !.blocks[g.blockID] = MarkClean(c.blocks[g.blockID], g.nextVersion),
              !.pending = c.pending \ {g}]

\* A goroutine of a deleted *Block finding its version by the block id: the
\* version numbered as the first of every block in the map becomes clean.
OrphanGoroutineByID(c) ==
    [c EXCEPT !.orphaned = c.orphaned - 1,
              !.blocks = [id \in DOMAIN c.blocks |-> MarkClean(c.blocks[id], 1)]]

\* A goroutine whose *Block is no longer in the map, after its sleep: it
\* marks a version of that *Block.
OrphanGoroutine(c) == [c EXCEPT !.orphaned = c.orphaned - 1]

\* Chain.Read falling back on the newest version when none is clean.
LatestCleanElseNewest(versions) ==
    LET clean == { i \in 1..Len(versions) : versions[i].Clean }
    IN  IF clean = {} THEN Len(versions)
        ELSE CHOOSE i \in clean : \A k \in clean : k <= i

\* The index Chain.Read settles on: the latest clean version, else the oldest.
LatestCleanVersion(versions) ==
    LET clean == { i \in 1..Len(versions) : versions[i].Clean }
    IN  IF clean = {} THEN 1
        ELSE CHOOSE i \in clean : \A k \in clean : k <= i

Read(c, blockID) ==
    IF blockID \notin DOMAIN c.blocks
    THEN [err |-> "NotFound", data |-> NilBytes, metadata |-> NilBytes, idx |-> 0]
    ELSE LET versions == c.blocks[blockID]
         IN  IF Len(versions) = 0
             THEN [err |-> "NotFound", data |-> NilBytes, metadata |-> NilBytes,
                   idx |-> 0]
             ELSE LET i == LatestCleanVersion(versions)
                  IN  [err |-> "ok", data |-> versions[i].Data,
                       metadata |-> versions[i].Metadata, idx |-> i]

\* The goroutines Delete cuts off from the map: those of the deleted *Block.
Orphans(c, blockID) == { g \in c.pending : g.blockID = blockID }

\* Chain.Delete emptying the block's version list and keeping its entry.
DeleteVersionsOnly(c, blockID) ==
    IF blockID \notin DOMAIN c.blocks
    THEN [c |-> c, err |-> "NotFound"]
    ELSE [c |-> [c EXCEPT
                    !.blocks[blockID] = <<>>,
                    !.pending = c.pending \ Orphans(c, blockID),
                    !.orphaned = c.orphaned + Cardinality(Orphans(c, blockID))],
          err |-> "ok"]

Delete(c, blockID) ==
    IF blockID \notin DOMAIN c.blocks
    THEN [c |-> c, err |-> "NotFound"]
    ELSE [c |-> [c EXCEPT
                    !.blocks = Drop(c.blocks, blockID),
                    !.pending = c.pending \ Orphans(c, blockID),
                    !.orphaned = c.orphaned + Cardinality(Orphans(c, blockID))],
          err |-> "ok"]

\* The sum over the blocks of the map of len(block.Versions).
RECURSIVE TotalVersions(_)
TotalVersions(blocks) ==
    IF DOMAIN blocks = {} THEN 0
    ELSE LET id == CHOOSE x \in DOMAIN blocks : TRUE
         IN  Len(blocks[id]) + TotalVersions(Drop(blocks, id))

GetStats(c) ==
    [stats |-> [node_count     |-> Len(c.nodes),
                block_count    |-> Cardinality(DOMAIN c.blocks),
                total_versions |-> TotalVersions(c.blocks)],
     err |-> "ok"]

\* -------------------------------------------------- storage.LocalStorage

\* store.calls are the calls of ReadBlock that hold s.mu for reading, each
\* with its block id and the place it is at.
NewLocalStorage == [dirs |-> {}, files |-> <<>>, cache |-> <<>>, calls |-> <<>>]

\* LocalStorage.Initialize: os.MkdirAll of the 256 shard directories.
StorageInitialize(s) == [s |-> [s EXCEPT !.dirs = ShardDirs], err |-> "ok"]

getBlockPath(blockID) ==
    LET padded == IF Len(blockID) < 2 THEN <<"0", "0">> \o blockID ELSE blockID
    IN  [dir |-> SubSeq(padded, 1, 2), name |-> padded]

getMetadataPath(blockID) ==
    LET p == getBlockPath(blockID)
    IN  [p EXCEPT !.name = p.name \o <<".", "m", "e", "t", "a">>]

\* os.Stat(path) finds the file.
Exists(s, path) == path \in DOMAIN s.files

\* ioutil.WriteFile: fails when the directory is missing or the disk refuses
\* the write (fault); a failed write leaves the files as they were.
WriteFile(s, path, data, fault) ==
    IF fault \/ path.dir \notin s.dirs
    THEN [s |-> s, err |-> "IOFailure"]
    ELSE [s |-> [s EXCEPT !.files =
                    Put(s.files, path, IF data = NilBytes THEN <<>> ELSE data)],
          err |-> "ok"]

\* os.Remove, its error ignored or a missing file tolerated.
Remove(s, path) == [s EXCEPT !.files = Drop(s.files, path)]

\* fault: "none", "data" (the data file's write fails) or "meta" (the
\* metadata file's write fails).
StorageWriteBlock(s, blockID, data, metadata, fault) ==
    LET blockPath == getBlockPath(blockID)
        w1 == WriteFile(s, blockPath, data, fault = "data")
    IN  IF w1.err # "ok"
        THEN [s |-> s, err |-> "IOFailure"]
        ELSE LET w2 == IF metadata # NilBytes
                       THEN WriteFile(w1.s, getMetadataPath(blockID), metadata,
                                      fault = "meta")
                       ELSE w1
             IN  IF w2.err # "ok"
                 THEN [s |-> Remove(w1.s, blockPath), err |-> "IOFailure"]
                 ELSE [s |-> [w2.s EXCEPT !.cache = Put(w2.s.cache, blockID, data)],
                       err |-> "ok"]

StorageReadBlockMetadata(s, blockID) ==
    LET metaPath == getMetadataPath(blockID)
    IN  IF ~Exists(s, metaPath)
        THEN [exists |-> FALSE, metadata |-> NilBytes, err |-> "ok"]
        ELSE [exists |-> TRUE, metadata |-> s.files[metaPath], err |-> "ok"]

StorageReadBlock(s, blockID) ==
    LET m == StorageReadBlockMetadata(s, blockID)
        blockPath == getBlockPath(blockID)
    IN  IF blockID \in DOMAIN s.cache
        THEN IF ~m.exists
             THEN [s |-> s, err |-> "NotFound", data |-> NilBytes,
                   metadata |-> NilBytes]
             ELSE [s |-> s, err |-> "ok", data |-> s.cache[blockID],
                   metadata |-> m.metadata]
        ELSE IF ~Exists(s, blockPath)
        THEN [s |-> s, err |-> "NotFound", data |-> NilBytes,
              metadata |-> NilBytes]
        ELSE [s |-> [s EXCEPT !.cache = Put(s.cache, blockID, s.files[blockPath])],
              err |-> "ok", data |-> s.files[blockPath],
              metadata |-> m.metadata]

\* LocalStorage.DeleteBlock taking away the data file and the cache entry
\* and leaving the metadata file.
StorageDeleteBlockDataOnly(s, blockID) ==
    [s |-> [Remove(s, getBlockPath(blockID))
               EXCEPT !.cache = Drop(s.cache, blockID)],
     err |-> "ok"]

StorageDeleteBlock(s, blockID) ==
    [s |-> [Remove(Remove(s, getBlockPath(blockID)), getMetadataPath(blockID))
               EXCEPT !.cache = Drop(s.cache, blockID)],
     err |-> "ok"]

Flush(s) == [s |-> [s EXCEPT !.cache = <<>>], err |-> "ok"]

\* ----------------------------------------------------------- block.Service

\* json.Unmarshal accepts the bytes.
ValidJSON(bytes) ==
    /\ Len(bytes) >= 3
    /\ bytes[1] >= 0
    /\ Len(bytes) = bytes[1] + 3

\* The version Service.WriteBlock puts in the metadata it builds.
ServiceMetadataVersion == 1

ServiceWriteBlock(c, s, hasChain, blockID, data, fault, now) ==
    LET metadataBytes == Marshal(NewBlockMetadata(data, ServiceMetadataVersion))
        w == IF hasChain THEN Write(c, blockID, data, metadataBytes, now)
                         ELSE [c |-> c, err |-> "ok"]
        l == StorageWriteBlock(s, blockID, data, metadataBytes, fault)
    IN  IF w.err # "ok"
        THEN [c |-> c, s |-> s, err |-> w.err]
        ELSE [c |-> w.c, s |-> l.s, err |-> l.err]

ServiceReadBlock(c, s, hasChain, blockID) ==
    LET r == Read(c, blockID)
        l == StorageReadBlock(s, blockID)
    IN  IF hasChain /\ r.err = "ok" /\ r.data # NilBytes
        THEN [s |-> s, err |-> "ok", data |-> r.data]
        ELSE [s |-> l.s, err |-> l.err, data |-> l.data]

ServiceReadBlockMetadata(c, s, hasChain, blockID) ==
    LET r == Read(c, blockID)
        l == StorageReadBlockMetadata(s, blockID)
    IN  IF hasChain /\ r.err = "ok" /\ r.metadata # NilBytes
        THEN IF ValidJSON(r.metadata)
             THEN [err |-> "ok", md |-> Unmarshal(r.metadata)]
             ELSE [err |-> "BadMetadata", md |-> NoMetadata]
        ELSE IF l.err # "ok"
        THEN [err |-> l.err, md |-> NoMetadata]
        ELSE IF ~l.exists \/ l.metadata = NilBytes
        THEN [err |-> "NotFound", md |-> NoMetadata]
        ELSE IF ValidJSON(l.metadata)
        THEN [err |-> "ok", md |-> Unmarshal(l.metadata)]
        ELSE [err |-> "BadMetadata", md |-> NoMetadata]

ServiceDeleteBlock(c, s, hasChain, blockID) ==
    LET d == IF hasChain THEN Delete(c, blockID) ELSE [c |-> c, err |-> "ok"]
        l == StorageDeleteBlock(s, blockID)
    IN  IF d.err # "ok"
        THEN [c |-> c, s |-> s, err |-> d.err]
        ELSE [c |-> d.c, s |-> l.s, err |-> l.err]

\* ---------------------------------------------------------------- actions

Ret(op, id, err, data, md, idx) ==
    [op |-> op, id |-> id, err |-> err, data |-> data, md |-> md, idx |-> idx]

\* The bounds on Chain.Write.
CanWrite(blockID) ==
    /\ Cardinality(chain.pending) + chain.orphaned < MaxPending
    /\ blockID \in DOMAIN chain.blocks
          => Len(chain.blocks[blockID]) < MaxVersions

\* The metadata a caller of Chain.Write or LocalStorage.WriteBlock passes.
MetadataArgs(data) ==
    { NilBytes, Marshal(NewBlockMetadata(data, ServiceMetadataVersion)) }

\* The chain as NewChain leaves it, or as NewStorageNode leaves it after the
\* AddNode of the node itself.
BuiltChains == { NewChain, AddNode(NewChain, "n1").c }

Init ==
    /\ chain \in BuiltChains
    /\ store = NewLocalStorage
    /\ craqChain \in BOOLEAN
    /\ ret = Ret("init", <<>>, "ok", NilBytes, NoMetadata, 0)

DoAddNode ==
    \E id \in NodeIDs :
        LET r == AddNode(chain, id)
        IN  /\ chain' = r.c
            /\ ret' = Ret("AddNode", <<id>>, r.err, NilBytes, NoMetadata, 0)
            /\ UNCHANGED <<store, craqChain>>

DoInitialize ==
    LET r == Initialize(chain)
    IN  /\ chain' = r.c
        /\ ret' = Ret("Initialize", <<>>, r.err, NilBytes, NoMetadata, 0)
        /\ UNCHANGED <<store, craqChain>>

DoIsHeadNode ==
    \E id \in NodeIDs :
        /\ ret' = [op |-> "IsHeadNode", id |-> <<id>>, err |-> "ok",
                   data |-> NilBytes, md |-> NoMetadata, idx |-> 0,
                   result |-> IsHeadNode(chain, id)]
        /\ UNCHANGED <<chain, store, craqChain>>

DoIsTailNode ==
    \E id \in NodeIDs :
        /\ ret' = [op |-> "IsTailNode", id |-> <<id>>, err |-> "ok",
                   data |-> NilBytes, md |-> NoMetadata, idx |-> 0,
                   result |-> IsTailNode(chain, id)]
        /\ UNCHANGED <<chain, store, craqChain>>

DoGetNodeCount ==
    /\ ret' = Ret("GetNodeCount", <<>>, "ok", NilBytes, NoMetadata,
                  GetNodeCount(chain))
    /\ UNCHANGED <<chain, store, craqChain>>

DoStorageInitialize ==
    LET r == StorageInitialize(store)
    IN  /\ store' = r.s
        /\ ret' = Ret("StorageInitialize", <<>>, r.err, NilBytes, NoMetadata, 0)
        /\ UNCHANGED <<chain, craqChain>>

\* Chain.Write with the metadata its caller in this repository builds.
DoWrite ==
    \E id \in BlockIDs, data \in Payloads, now \in SameInstant :
        LET metadata == Marshal(NewBlockMetadata(data, ServiceMetadataVersion))
            r == Write(chain, id, data, metadata, now)
        IN  /\ CanWrite(id)
            /\ chain' = r.c
            /\ ret' = Ret("Write", id, r.err, data, NoMetadata, 0)
            /\ UNCHANGED <<store, craqChain>>

\* Chain.Write on one block id, with the reading of the clock it gets.
DoWriteAt ==
    \E id \in OneBlock, data \in Payloads, now \in Timestamps :
        LET metadata == Marshal(NewBlockMetadata(data, ServiceMetadataVersion))
            r == Write(chain, id, data, metadata, now)
        IN  /\ CanWrite(id)
            /\ chain' = r.c
            /\ ret' = Ret("Write", id, r.err, data, NoMetadata, 0)
            /\ UNCHANGED <<store, craqChain>>

\* The goroutines that call Chain.Write at the same time.
Callers == { "w1", "w2" }

\* The calls of Chain.Write in progress on a block id.
CallsOn(blockID) == { w \in DOMAIN chain.calls : chain.calls[w].blockID = blockID }

\* The bounds on Chain.Write, the calls in progress counted.
CanCall(blockID) ==
    /\ Cardinality(chain.pending) + chain.orphaned
           + Cardinality(DOMAIN chain.calls) < MaxPending
    /\ Len(IF blockID \in DOMAIN chain.blocks THEN chain.blocks[blockID] ELSE <<>>)
           + Cardinality(CallsOn(blockID)) < MaxVersions

\* A caller enters Chain.Write.
WriteCall ==
    \E w \in Callers \ DOMAIN chain.calls, id \in BlockIDs, data \in Payloads,
       now \in SameInstant :
        /\ CanCall(id)
        /\ chain' = [chain EXCEPT !.calls =
                        Put(chain.calls, w,
                            [blockID |-> id, data |-> data, now |-> now,
                             pc |-> "Lock"])]
        /\ ret' = Ret("Write.call", id, "ok", data, NoMetadata, 0)
        /\ UNCHANGED <<store, craqChain>>

\* c.mu.Lock() of Chain.Write returns: nobody held the mutex.
WriteLock ==
    \E w \in DOMAIN chain.calls :
        /\ chain.calls[w].pc = "Lock"
        /\ chain.mu = Unlocked
        /\ chain' = [chain EXCEPT !.mu = w, !.calls[w].pc = "Append"]
        /\ ret' = Ret("Write.lock", chain.calls[w].blockID, "ok",
                      chain.calls[w].data, NoMetadata, 0)
        /\ UNCHANGED <<store, craqChain>>

\* The rest of Chain.Write under c.mu: the append under block.mu, the start
\* of the goroutine, and the deferred unlocks at the return.
WriteAppend ==
    \E w \in DOMAIN chain.calls :
        LET call == chain.calls[w]
            metadata == Marshal(NewBlockMetadata(call.data, ServiceMetadataVersion))
            r == Write(chain, call.blockID, call.data, metadata, call.now)
        IN  /\ call.pc = "Append"
            /\ chain.mu = w
            /\ chain' = [r.c EXCEPT !.mu = Unlocked, !.calls = Drop(chain.calls, w)]
            /\ ret' = Ret("Write", call.blockID, r.err, call.data, NoMetadata, 0)
            /\ UNCHANGED <<store, craqChain>>

\* The payload of the writes where the data is never looked at.
SamePayload == { <<1>> }

\* The calls holding c.mu for reading: GetStats between RLock and RUnlock.
Readers(c) == { w \in DOMAIN c.calls : c.calls[w].pc = "Range" }

\* c.mu.Lock() with the readers overlooked.
CanLockOverReaders(c) == c.mu = Unlocked

\* c.mu.Lock() can return: no writer and no reader holds the mutex.
CanLock(c) == c.mu = Unlocked /\ Readers(c) = {}

\* Chain.Write while other calls may hold c.mu; one step, since it has the
\* mutex to itself from c.mu.Lock() to its return.
LockedWrite ==
    \E id \in BlockIDs, data \in SamePayload, now \in SameInstant :
        LET metadata == Marshal(NewBlockMetadata(data, ServiceMetadataVersion))
            r == Write(chain, id, data, metadata, now)
        IN  /\ CanWrite(id)
            /\ CanLock(chain)
            /\ chain' = r.c
            /\ ret' = Ret("Write", id, r.err, data, NoMetadata, 0)
            /\ UNCHANGED <<store, craqChain>>

\* Chain.Delete while other calls may hold c.mu.
LockedDelete ==
    \E id \in BlockIDs :
        LET r == Delete(chain, id)
        IN  /\ CanLock(chain)
            /\ chain' = r.c
            /\ ret' = Ret("Delete", id, r.err, NilBytes, NoMetadata, 0)
            /\ UNCHANGED <<store, craqChain>>

\* The goroutine that calls Chain.GetStats.
StatsCaller == "s1"

\* c.mu.RLock() of Chain.GetStats returns (no writer holds the mutex), and
\* node_count and block_count are taken.
GetStatsRLock ==
    /\ StatsCaller \notin DOMAIN chain.calls
    /\ chain.mu = Unlocked
    /\ chain' = [chain EXCEPT !.calls =
                    Put(chain.calls, StatsCaller,
                        [pc |-> "Range",
                         node_count |-> Len(chain.nodes),
                         block_count |-> Cardinality(DOMAIN chain.blocks),
                         visited |-> {},
                         totalVersions |-> 0])]
    /\ ret' = Ret("GetStats.rlock", <<>>, "ok", NilBytes, NoMetadata, 0)
    /\ UNCHANGED <<store, craqChain>>

\* One round of the loop over c.blocks, in the map's order: the length of
\* one block's version list, read under block.mu, is added.
GetStatsRange ==
    /\ StatsCaller \in Readers(chain)
    /\ \E id \in DOMAIN chain.blocks \ chain.calls[StatsCaller].visited :
           /\ chain' = [chain EXCEPT
                           !.calls[StatsCaller].visited = @ \cup {id},
                           !.calls[StatsCaller].totalVersions =
                               @ + Len(chain.blocks[id])]
           /\ ret' = Ret("GetStats.range", id, "ok", NilBytes, NoMetadata, 0)
    /\ UNCHANGED <<store, craqChain>>

\* The loop is over: GetStats gives c.mu back and returns its map.
GetStatsReturn ==
    /\ StatsCaller \in Readers(chain)
    /\ DOMAIN chain.blocks \subseteq chain.calls[StatsCaller].visited
    /\ chain' = [chain EXCEPT !.calls = Drop(chain.calls, StatsCaller)]
    /\ ret' = [op |-> "GetStats", id |-> <<>>, err |-> "ok",
               data |-> NilBytes, md |-> NoMetadata, idx |-> 0,
               stats |-> [node_count |-> chain.calls[StatsCaller].node_count,
                          block_count |-> chain.calls[StatsCaller].block_count,
                          total_versions |->
                              chain.calls[StatsCaller].totalVersions]]
    /\ UNCHANGED <<store, craqChain>>

DoGetStats ==
    LET r == GetStats(chain)
    IN  /\ ret' = [op |-> "GetStats", id |-> <<>>, err |-> r.err,
                   data |-> NilBytes, md |-> NoMetadata, idx |-> 0,
                   stats |-> r.stats]
        /\ UNCHANGED <<chain, store, craqChain>>

\* The goroutine g wakes up and runs to its end.
RunGoroutine(g) ==
    /\ g \in chain.pending
    /\ chain' = CleanGoroutine(chain, g)
    /\ ret' = Ret("goroutine", g.blockID, "ok", NilBytes, NoMetadata, 0)
    /\ UNCHANGED <<store, craqChain>>

DoCleanGoroutine == \E g \in chain.pending : RunGoroutine(g)

DoOrphanGoroutine ==
    /\ chain.orphaned > 0
    /\ chain' = OrphanGoroutine(chain)
    /\ ret' = Ret("goroutine", <<>>, "ok", NilBytes, NoMetadata, 0)
    /\ UNCHANGED <<store, craqChain>>

DoRead ==
    \E id \in BlockIDs :
        LET r == Read(chain, id)
        IN  /\ ret' = Ret("Read", id, r.err, r.data,
                          IF r.metadata # NilBytes /\ ValidJSON(r.metadata)
                          THEN Unmarshal(r.metadata) ELSE NoMetadata,
                          r.idx)
            /\ UNCHANGED <<chain, store, craqChain>>

DoDelete ==
    \E id \in BlockIDs :
        LET r == Delete(chain, id)
        IN  /\ chain' = r.c
            /\ ret' = Ret("Delete", id, r.err, NilBytes, NoMetadata, 0)
            /\ UNCHANGED <<store, craqChain>>

DoStorageWriteBlock ==
    \E id \in LocalBlockIDs, data \in Payloads, fault \in {"none", "data", "meta"} :
        \E metadata \in MetadataArgs(data) :
            LET r == StorageWriteBlock(store, id, data, metadata, fault)
            IN  /\ store' = r.s
                /\ ret' = Ret("StorageWriteBlock", id, r.err, data, NoMetadata, 0)
                /\ UNCHANGED <<chain, craqChain>>

DoStorageReadBlock ==
    \E id \in LocalBlockIDs :
        LET r == StorageReadBlock(store, id)
        IN  /\ store' = r.s
            /\ ret' = Ret("StorageReadBlock", id, r.err, r.data,
                          IF r.metadata # NilBytes /\ ValidJSON(r.metadata)
                          THEN Unmarshal(r.metadata) ELSE NoMetadata,
                          0)
            /\ UNCHANGED <<chain, craqChain>>

DoStorageDeleteBlock ==
    \E id \in LocalBlockIDs :
        LET r == StorageDeleteBlock(store, id)
        IN  /\ store' = r.s
            /\ ret' = Ret("StorageDeleteBlock", id, r.err, NilBytes, NoMetadata, 0)
            /\ UNCHANGED <<chain, craqChain>>

DoFlush ==
    LET r == Flush(store)
    IN  /\ store' = r.s
        /\ ret' = Ret("Flush", <<>>, r.err, NilBytes, NoMetadata, 0)
        /\ UNCHANGED <<chain, craqChain>>

DoServiceWriteBlock ==
    \E id \in BlockIDs, data \in Payloads, fault \in {"none", "data", "meta"},
       now \in SameInstant :
        LET r == ServiceWriteBlock(chain, store, craqChain, id, data, fault, now)
        IN  /\ craqChain => CanWrite(id)
            /\ chain' = r.c
            /\ store' = r.s
            /\ ret' = Ret("WriteBlock", id, r.err, data, NoMetadata, 0)
            /\ UNCHANGED craqChain

DoServiceReadBlock ==
    \E id \in BlockIDs :
        LET r == ServiceReadBlock(chain, store, craqChain, id)
        IN  /\ store' = r.s
            /\ ret' = Ret("ReadBlock", id, r.err, r.data, NoMetadata, 0)
            /\ UNCHANGED <<chain, craqChain>>

DoServiceReadBlockMetadata ==
    \E id \in BlockIDs :
        LET r == ServiceReadBlockMetadata(chain, store, craqChain, id)
        IN  /\ ret' = Ret("ReadBlockMetadata", id, r.err, NilBytes, r.md, 0)
            /\ UNCHANGED <<chain, store, craqChain>>

DoServiceDeleteBlock ==
    \E id \in BlockIDs :
        LET r == ServiceDeleteBlock(chain, store, craqChain, id)
        IN  /\ chain' = r.c
            /\ store' = r.s
            /\ ret' = Ret("DeleteBlock", id, r.err, NilBytes, NoMetadata, 0)
            /\ UNCHANGED craqChain

\* The process stops and starts again: the chain is rebuilt in memory with
\* the same nodes and no blocks, its goroutines died with the process, the
\* cache is empty, and the files are still on the disk.
DoRestart ==
    /\ chain' = [chain EXCEPT !.blocks = <<>>, !.pending = {}, !.orphaned = 0]
    /\ store' = [store EXCEPT !.cache = <<>>]
    /\ ret' = Ret("Restart", <<>>, "ok", NilBytes, NoMetadata, 0)
    /\ UNCHANGED craqChain

\* The block service with its chain and its store.
Next ==
    \/ DoStorageInitialize
    \/ DoCleanGoroutine
    \/ DoOrphanGoroutine
    \/ DoServiceWriteBlock
    \/ DoServiceReadBlock
    \/ DoServiceReadBlockMetadata
    \/ DoServiceDeleteBlock
    \/ DoRestart

Spec == Init /\ [][Next]_vars

InitChain ==
    /\ chain \in BuiltChains
    /\ store = NewLocalStorage
    /\ craqChain = TRUE
    /\ ret = Ret("init", <<>>, "ok", NilBytes, NoMetadata, 0)

\* The chain alone, called directly.
NextChain ==
    \/ DoWrite
    \/ DoCleanGoroutine
    \/ DoOrphanGoroutine
    \/ DoRead
    \/ DoDelete

SpecChain == InitChain /\ [][NextChain]_vars

\* The goroutines a Write of the model can start.
Goroutines == [blockID : BlockIDs, nextVersion : 1..MaxVersions]

\* The scheduler runs every goroutine that is ready: each one's sleep ends
\* and block.mu, held only for the length of a call, comes free.
FairGoroutines ==
    /\ \A g \in Goroutines : WF_vars(RunGoroutine(g))
    /\ WF_vars(DoOrphanGoroutine)

\* The chain's operations with the clock running, the writes on one block.
NextBlock ==
    \/ DoWriteAt
    \/ DoCleanGoroutine
    \/ DoOrphanGoroutine
    \/ DoRead
    \/ DoDelete
    \/ DoGetStats
    \/ DoInitialize

SpecBlock == InitChain /\ [][NextBlock]_vars

SpecBlockFair == SpecBlock /\ FairGoroutines

\* Chain.Write called from several goroutines, lock by lock.
NextLocks ==
    \/ WriteCall
    \/ WriteLock
    \/ WriteAppend
    \/ DoCleanGoroutine

SpecLocks == InitChain /\ [][NextLocks]_vars

\* Chain.GetStats step by step, next to the calls and goroutines that change
\* the chain.
NextStats ==
    \/ GetStatsRLock
    \/ GetStatsRange
    \/ GetStatsReturn
    \/ LockedWrite
    \/ LockedDelete
    \/ DoCleanGoroutine
    \/ DoOrphanGoroutine

SpecStats == InitChain /\ [][NextStats]_vars

\* A chain and a store just built: no node, no directory.
InitBare ==
    /\ chain = NewChain
    /\ store = NewLocalStorage
    /\ craqChain = TRUE
    /\ ret = Ret("init", <<>>, "ok", NilBytes, NoMetadata, 0)

\* The local store alone, called directly.
NextStorage ==
    \/ DoStorageInitialize
    \/ DoStorageWriteBlock
    \/ DoStorageReadBlock
    \/ DoStorageDeleteBlock
    \/ DoFlush

SpecStorage == InitBare /\ [][NextStorage]_vars

\* s.mu.Lock() of the local store can return: no ReadBlock holds s.mu for
\* reading.
StorageCanLock(s) == DOMAIN s.calls = {}

\* WriteBlock, DeleteBlock and Flush while ReadBlock calls may hold s.mu; one
\* step each, since they have the mutex to themselves from s.mu.Lock() to
\* their return.
LockedStorageWriteBlock == StorageCanLock(store) /\ DoStorageWriteBlock

LockedStorageDeleteBlock == StorageCanLock(store) /\ DoStorageDeleteBlock

LockedFlush == StorageCanLock(store) /\ DoFlush

\* s.mu.RLock() of LocalStorage.ReadBlock returns: a reader never waits for
\* another reader, and no writer is inside its call.
ReadBlockRLock ==
    \E w \in Callers \ DOMAIN store.calls, id \in LocalBlockIDs :
        /\ store' = [store EXCEPT !.calls =
                        Put(store.calls, w, [blockID |-> id, pc |-> "Lookup"])]
        /\ ret' = Ret("StorageReadBlock.rlock", id, "ok", NilBytes, NoMetadata, 0)
        /\ UNCHANGED <<chain, craqChain>>

\* The cache is looked up. On a hit, and on a miss with no data file, the
\* call returns and gives s.mu back; on a miss with the data file there the
\* files are read and the call stands before s.cache[blockID] = data.
ReadBlockLookup ==
    \E w \in DOMAIN store.calls :
        LET call == store.calls[w]
            r == StorageReadBlock(store, call.blockID)
        IN  /\ call.pc = "Lookup"
            /\ IF r.s.cache = store.cache
               THEN /\ store' = [store EXCEPT !.calls = Drop(store.calls, w)]
                    /\ ret' = Ret("StorageReadBlock", call.blockID, r.err,
                                  r.data, NoMetadata, 0)
               ELSE /\ store' = [store EXCEPT !.calls[w] =
                                    [blockID |-> call.blockID, pc |-> "Store",
                                     data |-> r.data]]
                    /\ ret' = Ret("StorageReadBlock.lookup", call.blockID,
                                  "ok", NilBytes, NoMetadata, 0)
            /\ UNCHANGED <<chain, craqChain>>

\* The other ReadBlock calls that are at the map while w is: before their
\* lookup or before their own assignment, all under the read lock.
AtTheMap(s, w) ==
    { v \in DOMAIN s.calls \ {w} : s.calls[v].pc \in {"Lookup", "Store"} }

\* s.cache[blockID] = data under the read lock, and the return. With no
\* other call at the map the entry is stored. With another call at the map
\* the assignment is a data race on a Go map: the entry is stored, or it is
\* lost, or the runtime ends the process with "fatal error: concurrent map
\* writes" and every call and the cache go with it.
ReadBlockStore ==
    \E w \in DOMAIN store.calls :
        LET call == store.calls[w]
            stored == [store EXCEPT
                          !.cache = Put(store.cache, call.blockID, call.data),
                          !.calls = Drop(store.calls, w)]
            lost == [store EXCEPT !.calls = Drop(store.calls, w)]
            fatal == [store EXCEPT !.cache = <<>>, !.calls = <<>>]
        IN  /\ call.pc = "Store"
            /\ \E outcome \in IF AtTheMap(store, w) = {}
                               THEN {"ok"}
                               ELSE {"ok", "lost", "fatal"} :
                   /\ store' = CASE outcome = "ok" -> stored
                                  [] outcome = "lost" -> lost
                                  [] outcome = "fatal" -> fatal
                   /\ ret' = Ret("StorageReadBlock", call.blockID, outcome,
                                 call.data, NoMetadata, 0)
            /\ UNCHANGED <<chain, craqChain>>

\* LocalStorage.ReadBlock step by step, next to the calls that take s.mu
\* for writing.
NextCache ==
    \/ DoStorageInitialize
    \/ LockedStorageWriteBlock
    \/ LockedStorageDeleteBlock
    \/ LockedFlush
    \/ ReadBlockRLock
    \/ ReadBlockLookup
    \/ ReadBlockStore

SpecCache == InitBare /\ [][NextCache]_vars

\* The chain's node list alone.
NextTopology ==
    \/ DoAddNode
    \/ DoInitialize
    \/ DoIsHeadNode
    \/ DoIsTailNode
    \/ DoGetNodeCount

SpecTopology == InitBare /\ [][NextTopology]_vars

\* The node ids of a cluster configuration, and its ordered node lists
\* (cfg.Storage.Cluster.Nodes).
ClusterNodeIDs == { "n1", "n2", "n3" }

ClusterLists == UNION { [1..n -> ClusterNodeIDs] : n \in 0..ChainLength }

\* The loop of NewStorageNode over cfg.Storage.Cluster.Nodes: every node
\* but this one is added, in the list's order; the first AddNode that fails
\* ends the construction.
RECURSIVE AddOtherNodes(_, _, _)
AddOtherNodes(c, self, nodes) ==
    IF nodes = <<>>
    THEN [c |-> c, err |-> "ok"]
    ELSE IF Head(nodes) = self
         THEN AddOtherNodes(c, self, Tail(nodes))
         ELSE LET a == AddNode(c, Head(nodes))
              IN  IF a.err # "ok"
                  THEN [c |-> NewChain, err |-> a.err]
                  ELSE AddOtherNodes(a.c, self, Tail(nodes))

\* The chain NewStorageNode builds for the node self (cfg.Storage.Node.ID)
\* of a cluster: this node first, then the others.
NewStorageNode(self, nodes) ==
    LET a == AddNode(NewChain, self)
    IN  IF a.err # "ok"
        THEN [c |-> NewChain, err |-> a.err]
        ELSE AddOtherNodes(a.c, self, nodes)

\* A storage node is built from a configuration; a construction that fails
\* gives no node.
DoNewStorageNode ==
    \E self \in ClusterNodeIDs, nodes \in ClusterLists :
        LET r == NewStorageNode(self, nodes)
        IN  /\ chain' = IF r.err = "ok" THEN r.c ELSE chain
            /\ ret' = [op |-> "NewStorageNode", id |-> <<self>>, err |-> r.err,
                       data |-> NilBytes, md |-> NoMetadata, idx |-> 0,
                       nodes |-> nodes]
            /\ UNCHANGED <<store, craqChain>>

\* The construction of a node and the questions about its chain.
NextCluster ==
    \/ DoNewStorageNode
    \/ DoIsHeadNode
    \/ DoIsTailNode
    \/ DoGetNodeCount

SpecCluster == InitBare /\ [][NextCluster]_vars

\* ------------------------------------------------- the four kinds of lock
\*
\* The calls on a started node, lock by lock.  chain.calls holds every call
\* that has not returned, of the block service and of the chain alike, with
\* the place it is at: "s.mu", "c.mu", "block.mu" and "ls.mu" before the
\* Lock or RLock of that mutex returns, "block" inside the section under
\* block.mu, "local" inside the section under the local store's s.mu.  What
\* a call holds follows from its place, since every mutex is given back by a
\* deferred unlock at the return of the method that took it.

\* The results of the calls are left aside here: every step leaves the same
\* record of itself.
Stepped == Ret("step", <<>>, "ok", NilBytes, NoMetadata, 0)

ServiceOps == { "WriteBlock", "ReadBlock", "ReadBlockMetadata", "DeleteBlock" }

ChainOps == { "Write", "Read", "Delete", "GetStats" }

\* A mutex: the one of the service, of the chain or of the local store, or
\* the one of the *Block a block id stands for in the map.
Mu(name) == [mu |-> name, id |-> <<>>]

BlockMu(id) == [mu |-> "block.mu", id |-> id]

\* Lock ("W") or RLock ("R"), as each method takes each mutex.
ServiceMode(op) == IF op \in {"WriteBlock", "DeleteBlock"} THEN "W" ELSE "R"

ChainMode(op) ==
    IF op \in {"WriteBlock", "Write", "DeleteBlock", "Delete"} THEN "W" ELSE "R"

BlockMode(op) == IF op \in {"WriteBlock", "Write"} THEN "W" ELSE "R"

LocalMode(op) == IF op \in {"WriteBlock", "DeleteBlock"} THEN "W" ELSE "R"

\* The place of a call that holds c.mu and has its block, with a second
\* c.mu.RLock() inside the readers before block.mu.
BeforeBlockNestedRLock(op) == IF ChainMode(op) = "R" THEN "c.mu.r" ELSE "block.mu"

\* The place of a call that holds c.mu and has its block: the next mutex it
\* asks for is block.mu.
BeforeBlock(op) == "block.mu"

\* The place of a call after its part on the chain: the coordinator goes on
\* to the local store (ReadBlockMetadata reads the metadata file without a
\* lock and returns), a call on the chain returns.
AfterChain(op) ==
    IF op \in {"WriteBlock", "ReadBlock", "DeleteBlock"} THEN "ls.mu" ELSE "return"

\* The mutexes a call holds, each with its mode.
Held(call) ==
    (IF call.op \in ServiceOps /\ call.pc # "s.mu"
     THEN {[lock |-> Mu("s.mu"), mode |-> ServiceMode(call.op)]} ELSE {})
    \cup
    (IF call.pc \in {"c.mu.r", "block.mu", "block"}
     THEN {[lock |-> Mu("c.mu"), mode |-> ChainMode(call.op)]} ELSE {})
    \cup
    (IF call.pc = "block"
     THEN {[lock |-> BlockMu(call.blockID), mode |-> BlockMode(call.op)]} ELSE {})
    \cup
    (IF call.pc = "local"
     THEN {[lock |-> Mu("ls.mu"), mode |-> LocalMode(call.op)]} ELSE {})

\* The mutex a call is waiting for, with the mode it asks for.
Wanted(call) ==
    CASE call.pc = "s.mu" -> {[lock |-> Mu("s.mu"), mode |-> ServiceMode(call.op)]}
      [] call.pc \in {"c.mu", "c.mu.r"} ->
            {[lock |-> Mu("c.mu"), mode |-> ChainMode(call.op)]}
      [] call.pc = "block.mu" ->
            {[lock |-> BlockMu(call.blockID), mode |-> BlockMode(call.op)]}
      [] call.pc = "ls.mu" -> {[lock |-> Mu("ls.mu"), mode |-> LocalMode(call.op)]}
      [] OTHER -> {}

\* sync.RWMutex: Lock returns when no other call holds the mutex; RLock
\* returns when no other call holds it for writing and none is waiting in
\* Lock, the goroutines of Chain.Write that wait for their block.mu
\* included.
CanAcquire(c, w, lock, mode) ==
    /\ \A v \in DOMAIN c.calls \ {w} :
           IF mode = "W"
           THEN \A h \in Held(c.calls[v]) : h.lock # lock
           ELSE /\ [lock |-> lock, mode |-> "W"] \notin Held(c.calls[v])
                /\ [lock |-> lock, mode |-> "W"] \notin Wanted(c.calls[v])
    /\ mode = "R" => \A g \in c.waking : BlockMu(g.blockID) # lock

\* The call w moves on to a place, or returns.
Proceed(c, w, pc) ==
    IF pc = "return"
    THEN [c EXCEPT !.calls = Drop(c.calls, w)]
    ELSE [c EXCEPT !.calls[w].pc = pc]

\* The calls of Chain.Write, direct or through the coordinator, that have
\* not appended yet.
WritesOn(blockID) ==
    { w \in DOMAIN chain.calls :
        /\ chain.calls[w].op \in {"WriteBlock", "Write"}
        /\ chain.calls[w].pc \in {"s.mu", "c.mu", "block.mu", "block"}
        /\ chain.calls[w].blockID = blockID }

\* The bounds on the writes, those in progress counted.
CanStartWrite(blockID) ==
    /\ Cardinality(chain.pending) + chain.orphaned
           + Cardinality(WritesOn(blockID)) < MaxPending
    /\ Len(IF blockID \in DOMAIN chain.blocks THEN chain.blocks[blockID] ELSE <<>>)
           + Cardinality(WritesOn(blockID)) < MaxVersions

\* A goroutine calls a method of the coordinator or of the chain.
StartCall ==
    \E w \in Callers \ DOMAIN chain.calls, op \in ServiceOps \cup ChainOps,
       id \in OneBlock, data \in SamePayload :
        /\ op \in {"WriteBlock", "Write"} => CanStartWrite(id)
        /\ chain' = [chain EXCEPT !.calls =
                        Put(chain.calls, w,
                            [op |-> op,
                             blockID |-> IF op = "GetStats" THEN <<>> ELSE id,
                             data |-> data,
                             pc |-> IF op \in ServiceOps THEN "s.mu" ELSE "c.mu",
                             visited |-> {}])]
        /\ ret' = Stepped
        /\ UNCHANGED <<store, craqChain>>

\* s.mu.Lock() or s.mu.RLock() of the coordinator returns.
AcquireService(w) ==
    /\ w \in DOMAIN chain.calls
    /\ chain.calls[w].pc = "s.mu"
    /\ CanAcquire(chain, w, Mu("s.mu"), ServiceMode(chain.calls[w].op))
    /\ chain' = Proceed(chain, w, IF craqChain THEN "c.mu"
                                  ELSE AfterChain(chain.calls[w].op))
    /\ ret' = Stepped
    /\ UNCHANGED <<store, craqChain>>

\* c.mu.Lock() or c.mu.RLock() returns, and the call runs up to its
\* block.mu: Write stops at a chain without head, Delete deletes and gives
\* c.mu back, Read and GetStats look into the map.
AcquireChain(w) ==
    /\ w \in DOMAIN chain.calls
    /\ chain.calls[w].pc \in {"c.mu", "c.mu.r"}
    /\ CanAcquire(chain, w, Mu("c.mu"), ChainMode(chain.calls[w].op))
    /\ LET call == chain.calls[w]
           op == call.op
           d == Delete(chain, call.blockID)
       IN  CASE call.pc = "c.mu.r" ->
                   /\ chain' = Proceed(chain, w, "block.mu")
                   /\ ret' = Stepped
             [] op \in {"WriteBlock", "Write"} ->
                   /\ chain' = Proceed(chain, w, IF chain.head = NoNode
                                                 THEN "return"
                                                 ELSE BeforeBlock(op))
                   /\ ret' = Stepped
             [] op \in {"DeleteBlock", "Delete"} ->
                   /\ chain' = Proceed([d.c EXCEPT !.waking = @ \cap d.c.pending],
                                       w, IF d.err # "ok" THEN "return"
                                          ELSE AfterChain(op))
                   /\ ret' = Stepped
             [] op \in {"ReadBlock", "ReadBlockMetadata", "Read"} ->
                   IF call.blockID \in DOMAIN chain.blocks
                   THEN /\ chain' = Proceed(chain, w, BeforeBlock(op))
                        /\ ret' = Stepped
                   ELSE /\ chain' = Proceed(chain, w, AfterChain(op))
                        /\ ret' = Stepped
             [] op = "GetStats" ->
                   IF DOMAIN chain.blocks = {}
                   THEN /\ chain' = Proceed(chain, w, "return")
                        /\ ret' = Stepped
                   ELSE \E id \in DOMAIN chain.blocks :
                            /\ chain' = [chain EXCEPT
                                            !.calls[w].pc = BeforeBlock(op),
                                            !.calls[w].blockID = id]
                            /\ ret' = Stepped
    /\ UNCHANGED <<store, craqChain>>

\* block.mu.Lock() or block.mu.RLock() returns.
AcquireBlock(w) ==
    /\ w \in DOMAIN chain.calls
    /\ chain.calls[w].pc = "block.mu"
    /\ CanAcquire(chain, w, BlockMu(chain.calls[w].blockID),
                  BlockMode(chain.calls[w].op))
    /\ chain' = Proceed(chain, w, "block")
    /\ ret' = Stepped
    /\ UNCHANGED <<store, craqChain>>

\* The section under block.mu and the return from the chain: Write appends
\* and starts its goroutine, Read picks its version, GetStats adds the
\* length of one block and goes on to the next.
InBlock(w) ==
    /\ w \in DOMAIN chain.calls
    /\ chain.calls[w].pc = "block"
    /\ LET call == chain.calls[w]
           op == call.op
           id == call.blockID
           metadata == Marshal(NewBlockMetadata(call.data, ServiceMetadataVersion))
           r == Read(chain, id)
           left == DOMAIN chain.blocks \ (call.visited \cup {id})
       IN  CASE op \in {"WriteBlock", "Write"} ->
                   \E now \in SameInstant :
                       /\ chain' = Proceed(Write(chain, id, call.data, metadata,
                                                 now).c,
                                           w, AfterChain(op))
                       /\ ret' = Stepped
             [] op = "Read" ->
                   /\ chain' = Proceed(chain, w, "return")
                   /\ ret' = Stepped
             [] op = "ReadBlock" ->
                   IF r.err = "ok" /\ r.data # NilBytes
                   THEN /\ chain' = Proceed(chain, w, "return")
                        /\ ret' = Stepped
                   ELSE /\ chain' = Proceed(chain, w, AfterChain(op))
                        /\ ret' = Stepped
             [] op = "ReadBlockMetadata" ->
                   /\ chain' = Proceed(chain, w, "return")
                   /\ ret' = Stepped
             [] op = "GetStats" ->
                   IF left = {}
                   THEN /\ chain' = Proceed(chain, w, "return")
                        /\ ret' = Stepped
                   ELSE \E next \in left :
                            /\ chain' = [chain EXCEPT
                                            !.calls[w].pc = "block.mu",
                                            !.calls[w].blockID = next,
                                            !.calls[w].visited = @ \cup {id}]
                            /\ ret' = Stepped
    /\ UNCHANGED <<store, craqChain>>

\* s.mu.Lock() or s.mu.RLock() of the local store returns.
AcquireLocal(w) ==
    /\ w \in DOMAIN chain.calls
    /\ chain.calls[w].pc = "ls.mu"
    /\ CanAcquire(chain, w, Mu("ls.mu"), LocalMode(chain.calls[w].op))
    /\ chain' = Proceed(chain, w, "local")
    /\ ret' = Stepped
    /\ UNCHANGED <<store, craqChain>>

\* The other calls inside ReadBlock of the local store, under its read lock.
ReadersInLocal(c, w) ==
    { v \in DOMAIN c.calls \ {w} :
        c.calls[v].pc = "local" /\ c.calls[v].op = "ReadBlock" }

\* The section under the local store's s.mu and the return of the
\* coordinator's method.  A ReadBlock that stores into the cache while
\* another ReadBlock is in its section races on the map, as in
\* ReadBlockStore; when the runtime ends the process every call and every
\* goroutine goes with it and the node starts again.  The disk refuses
\* nothing here.
InLocal(w) ==
    /\ w \in DOMAIN chain.calls
    /\ chain.calls[w].pc = "local"
    /\ LET call == chain.calls[w]
           op == call.op
           id == call.blockID
           metadata == Marshal(NewBlockMetadata(call.data, ServiceMetadataVersion))
           l == StorageReadBlock(store, id)
           d == StorageDeleteBlock(store, id)
       IN  CASE op = "WriteBlock" ->
                   \E fault \in {"none"} :
                       LET wr == StorageWriteBlock(store, id, call.data,
                                                   metadata, fault)
                       IN  /\ store' = wr.s
                           /\ chain' = Proceed(chain, w, "return")
                           /\ ret' = Stepped
             [] op = "DeleteBlock" ->
                   /\ store' = d.s
                   /\ chain' = Proceed(chain, w, "return")
                   /\ ret' = Stepped
             [] op = "ReadBlock" ->
                   \E outcome \in IF l.s.cache # store.cache
                                     /\ ReadersInLocal(chain, w) # {}
                                  THEN {"ok", "lost", "fatal"} ELSE {"ok"} :
                       CASE outcome = "ok" ->
                               /\ store' = l.s
                               /\ chain' = Proceed(chain, w, "return")
                               /\ ret' = Stepped
                         [] outcome = "lost" ->
                               /\ store' = store
                               /\ chain' = Proceed(chain, w, "return")
                               /\ ret' = Stepped
                         [] outcome = "fatal" ->
                               /\ store' = [store EXCEPT !.cache = <<>>]
                               /\ chain' = [chain EXCEPT !.blocks = <<>>,
                                                         !.pending = {},
                                                         !.waking = {},
                                                         !.orphaned = 0,
                                                         !.calls = <<>>]
                               /\ ret' = Stepped
    /\ UNCHANGED craqChain

\* The steps of the call of one goroutine.
Step(w) ==
    \/ AcquireService(w)
    \/ AcquireChain(w)
    \/ AcquireBlock(w)
    \/ InBlock(w)
    \/ AcquireLocal(w)
    \/ InLocal(w)

\* No call is inside the section under the block.mu of a block of the map.
BlockFree(c, blockID) ==
    \A w \in DOMAIN c.calls :
        \A h \in Held(c.calls[w]) : h.lock # BlockMu(blockID)

\* The sleep of the goroutine g of Chain.Write is over: it calls
\* block.mu.Lock().
GoroutineWakes(g) ==
    /\ g \in chain.pending \ chain.waking
    /\ chain' = [chain EXCEPT !.waking = @ \cup {g}]
    /\ ret' = Stepped
    /\ UNCHANGED <<store, craqChain>>

\* block.mu.Lock() of the goroutine g returns; it marks its version and
\* gives block.mu back.
LockedGoroutine(g) ==
    /\ g \in chain.waking
    /\ BlockFree(chain, g.blockID)
    /\ chain' = [CleanGoroutine(chain, g) EXCEPT !.waking = @ \ {g}]
    /\ ret' = Stepped
    /\ UNCHANGED <<store, craqChain>>

\* A goroutine of a deleted block runs: its block.mu is out of every
\* call's reach.
OrphanRuns ==
    /\ chain.orphaned > 0
    /\ chain' = OrphanGoroutine(chain)
    /\ ret' = Stepped
    /\ UNCHANGED <<store, craqChain>>

\* The goroutines the writes on the one block can start.
SyncGoroutines == [blockID : OneBlock, nextVersion : 1..MaxVersions]

\* A started node: the chain with the node itself, as NewStorageNode leaves
\* it, and the shard directories made.
InitSync ==
    /\ chain = AddNode(NewChain, "n1").c
    /\ store = StorageInitialize(NewLocalStorage).s
    /\ craqChain = TRUE
    /\ ret = Ret("init", <<>>, "ok", NilBytes, NoMetadata, 0)

NextSync ==
    \/ StartCall
    \/ \E w \in Callers : AcquireService(w)
    \/ \E w \in Callers : AcquireChain(w)
    \/ \E w \in Callers : AcquireBlock(w)
    \/ \E w \in Callers : InBlock(w)
    \/ \E w \in Callers : AcquireLocal(w)
    \/ \E w \in Callers : InLocal(w)
    \/ \E g \in SyncGoroutines : GoroutineWakes(g)
    \/ \E g \in SyncGoroutines : LockedGoroutine(g)
    \/ OrphanRuns

SpecSync == InitSync /\ [][NextSync]_vars

\* The scheduler runs every goroutine that can run, and a mutex that comes
\* free again and again is in the end given to the call waiting for it
\* (sync.Mutex hands the lock to a waiter that has been starved).
FairSync ==
    /\ \A w \in Callers : SF_vars(Step(w))
    /\ \A g \in SyncGoroutines : WF_vars(GoroutineWakes(g))
    /\ \A g \in SyncGoroutines : SF_vars(LockedGoroutine(g))
    /\ WF_vars(OrphanRuns)

SpecSyncFair == SpecSync /\ FairSync

\* ------------------------------------------------------------------ claims

\* The versions the chain holds for a block id.
Versions(id) == IF id \in DOMAIN chain.blocks THEN chain.blocks[id] ELSE <<>>

\* The version numbers of the clean versions of a block id.
CleanVersions(id) ==
    { Versions(id)[i].Version : i \in { j \in 1..Len(Versions(id)) : Versions(id)[j].Clean } }

\* C1: what a successful Chain.Read returns is the data and metadata of a
\* version that is clean at the moment of the read, numbered no higher than
\* the latest clean version of the block.
C1_ReadReturnsCleanVersion ==
    (ret.op = "Read" /\ ret.err = "ok") =>
        LET v == Versions(ret.id)[ret.idx]
        IN  /\ v.Clean
            /\ ret.data = v.Data
            /\ \E n \in CleanVersions(ret.id) : v.Version <= n

\* C3: when Chain.Write returns success, the version it appended is clean.
C3_WriteReturnsAfterCommit ==
    (ret.op = "Write" /\ ret.err = "ok") =>
        Versions(ret.id)[Len(Versions(ret.id))].Clean

\* C4: no version of a block is clean while the version before it is dirty.
C4_InOrderCommit ==
    \A id \in DOMAIN chain.blocks :
        \A i \in 2..Len(Versions(id)) :
            Versions(id)[i].Clean => Versions(id)[i - 1].Clean

\* C5: the version list of every block of the chain is numbered 1, 2, ..., n.
C5_VersionsNumberedFromOne ==
    \A id \in DOMAIN chain.blocks :
        /\ Len(Versions(id)) >= 1
        /\ \A i \in 1..Len(Versions(id)) : Versions(id)[i].Version = i

\* C5 witness: a Write has just appended to a block that already had a
\* version, after a goroutine marked one of its versions.
C5_Witness ==
    /\ ret.op = "Write"
    /\ ret.err = "ok"
    /\ Len(Versions(ret.id)) >= 2
    /\ CleanVersions(ret.id) # {}

\* C6: Chain.Read of a block whose versions are all dirty reports NotReady
\* and returns no data.
C6_AllDirtyIsNotReady ==
    (ret.op = "Read" /\ ret.id \in DOMAIN chain.blocks
                     /\ CleanVersions(ret.id) = {}) =>
        (ret.err = "NotReady" /\ ret.data = NilBytes)
\* The local store holds nothing for a block id: no data file, no
\* metadata file, no cache entry.
NoLocal(s, id) ==
    /\ ~Exists(s, getBlockPath(id))
    /\ ~Exists(s, getMetadataPath(id))
    /\ id \notin DOMAIN s.cache

\* C2: a successful Service.WriteBlock(id, data) followed at once by
\* Service.ReadBlock(id) returns data, whatever the id held before.
C2_WriteThenReadRoundTrip ==
    \A id \in BlockIDs, data \in Payloads, now \in Timestamps :
        LET w == ServiceWriteBlock(chain, store, craqChain, id, data, "none", now)
            r == ServiceReadBlock(w.c, w.s, craqChain, id)
        IN  w.err = "ok" => (r.err = "ok" /\ r.data = data)

\* C7: on an id that holds nothing yet, after n successful Service.WriteBlock
\* calls in a row (n = 1, 2) Service.ReadBlockMetadata returns version n and
\* Service.ReadBlock returns the payload of the n-th write.
C7_MetadataVersionCountsWrites ==
    \A id \in BlockIDs, d1 \in Payloads, d2 \in Payloads, now \in Timestamps :
        LET w1 == ServiceWriteBlock(chain, store, craqChain, id, d1, "none", now)
            m1 == ServiceReadBlockMetadata(w1.c, w1.s, craqChain, id)
            r1 == ServiceReadBlock(w1.c, w1.s, craqChain, id)
            w2 == ServiceWriteBlock(w1.c, w1.s, craqChain, id, d2, "none", now)
            m2 == ServiceReadBlockMetadata(w2.c, w2.s, craqChain, id)
            r2 == ServiceReadBlock(w2.c, w2.s, craqChain, id)
        IN  (id \notin DOMAIN chain.blocks /\ NoLocal(store, id)) =>
                /\ w1.err = "ok" =>
                       (m1.err = "ok" /\ m1.md.Version = 1 /\ r1.data = d1)
                /\ (w1.err = "ok" /\ w2.err = "ok") =>
                       (m2.err = "ok" /\ m2.md.Version = 2 /\ r2.data = d2)

\* C8: after a successful Service.WriteBlock(id, data),
\* Service.ReadBlockMetadata(id) returns the SHA-256 checksum of data and the
\* length of data, whatever was written to id before.
C8_MetadataDescribesLastWrite ==
    \A id \in BlockIDs, data \in Payloads, now \in Timestamps :
        LET w == ServiceWriteBlock(chain, store, craqChain, id, data, "none", now)
            m == ServiceReadBlockMetadata(w.c, w.s, craqChain, id)
        IN  w.err = "ok" =>
                /\ m.err = "ok"
                /\ m.md.Checksum = EncodeToString(CalculateChecksum(data))
                /\ m.md.Size = Len(data)

\* C9: Service.DeleteBlock of an id that exists neither in the chain nor in
\* the local store returns NotFound, and a second Service.DeleteBlock right
\* after a first returns NotFound, with a chain and without one.
C9_DeleteMissingIsNotFound ==
    \A id \in BlockIDs :
        LET d1 == ServiceDeleteBlock(chain, store, craqChain, id)
            d2 == ServiceDeleteBlock(d1.c, d1.s, craqChain, id)
        IN  /\ (id \notin DOMAIN chain.blocks /\ NoLocal(store, id)) =>
                   d1.err = "NotFound"
            /\ d2.err = "NotFound"

\* C10: every Service.DeleteBlock step leaves the local store with nothing
\* for the id, and returns an error when the chain's Delete failed.
C10_DeleteAlwaysDeletesLocally ==
    [][ret'.op = "DeleteBlock" =>
          /\ NoLocal(store', ret'.id)
          /\ (craqChain /\ Delete(chain, ret'.id).err # "ok") => ret'.err # "ok"
      ]_vars

\* C11: the clean flag is monotone: a version that is clean before a step of
\* the chain is clean after it, as long as its block stays in the map.
C11_CleanIsMonotone ==
    [][\A id \in DOMAIN chain.blocks \cap DOMAIN chain'.blocks :
          \A i \in 1..Len(chain.blocks[id]) :
              (i <= Len(chain'.blocks[id]) /\ chain.blocks[id][i].Clean)
                  => chain'.blocks[id][i].Clean
      ]_vars

\* C11 witness: a goroutine has just marked a version of a block that
\* already had a clean version.
C11_Witness ==
    /\ ret.op = "goroutine"
    /\ ret.id \in DOMAIN chain.blocks
    /\ Cardinality(CleanVersions(ret.id)) >= 2

\* C12: versions are append-only and immutable: a step of the chain (Write,
\* Read, a clean-marking goroutine, GetStats) leaves the version number, the
\* data, the metadata and the timestamp of every version already appended as
\* they were and removes none of them; only Delete takes versions away, all
\* of the block's at once.
C12_VersionsAppendOnly ==
    [][\A id \in DOMAIN chain.blocks :
          IF id \in DOMAIN chain'.blocks
          THEN /\ Len(chain'.blocks[id]) >= Len(chain.blocks[id])
               /\ \A i \in 1..Len(chain.blocks[id]) :
                      /\ chain'.blocks[id][i].Version = chain.blocks[id][i].Version
                      /\ chain'.blocks[id][i].Data = chain.blocks[id][i].Data
                      /\ chain'.blocks[id][i].Metadata = chain.blocks[id][i].Metadata
                      /\ chain'.blocks[id][i].Timestamp = chain.blocks[id][i].Timestamp
          ELSE ret'.op = "Delete" /\ ret'.id = id /\ ret'.err = "ok"
      ]_vars

\* C12 witness: a Write has just appended, at a later reading of the clock
\* and with other data, to a block whose first version a goroutine has
\* marked.
C12_Witness ==
    /\ ret.op = "Write"
    /\ ret.err = "ok"
    /\ Len(Versions(ret.id)) >= 2
    /\ Versions(ret.id)[1].Clean
    /\ Versions(ret.id)[1].Timestamp # Versions(ret.id)[2].Timestamp
    /\ Versions(ret.id)[1].Data # Versions(ret.id)[2].Data

\* The goroutine started for a version has marked it.
Marked(g) ==
    /\ g.blockID \in DOMAIN chain.blocks
    /\ g.nextVersion \in CleanVersions(g.blockID)

\* C13: under fair scheduling every version a successful Write appended is
\* in the end marked clean, unless its block is deleted first; and a
\* successful Read never returns a version older than a clean one (so from
\* the marking on it returns that version or a newer one).
C13_CommitIsLive ==
    /\ \A g \in Goroutines :
           (g \in chain.pending) ~>
               (Marked(g) \/ (ret.op = "Delete" /\ ret.id = g.blockID
                                                /\ ret.err = "ok"))
    /\ [](ret.op = "Read" /\ ret.err = "ok" =>
             \A n \in CleanVersions(ret.id) :
                 Versions(ret.id)[ret.idx].Version >= n)

\* C13 witness: version 1 was written, its goroutine has marked it, and a
\* Read has returned its payload.
C13_Witness ==
    /\ ret.op = "Read"
    /\ ret.err = "ok"
    /\ CleanVersions(ret.id) = {1}
    /\ Len(Versions(ret.id)) = 1
    /\ ret.data = Versions(ret.id)[1].Data
    /\ ret.data \in Payloads

\* C15: writes to different blocks do not wait for each other: no call of
\* Chain.Write is held up at c.mu.Lock() while a call writing another block
\* holds the mutex.
C15_WritesToDifferentBlocksIndependent ==
    \A w1 \in DOMAIN chain.calls, w2 \in DOMAIN chain.calls :
        ~ /\ chain.calls[w1].pc = "Lock"
          /\ chain.mu = w2
          /\ chain.calls[w1].blockID # chain.calls[w2].blockID

\* C16: the chain never holds more nodes than its configured length, and
\* AddNode on a chain of that length fails with ChainFull and leaves the
\* node list, the head and the tail as they were.
C16_ChainSizeBound ==
    /\ Len(chain.nodes) <= ChainLength
    /\ Len(chain.nodes) >= ChainLength =>
           \A id \in NodeIDs :
               /\ AddNode(chain, id).err = "ChainFull"
               /\ AddNode(chain, id).c.nodes = chain.nodes
               /\ AddNode(chain, id).c.head = chain.head
               /\ AddNode(chain, id).c.tail = chain.tail
    /\ (ret.op = "AddNode" /\ ret.err # "ok") =>
           (ret.err = "ChainFull" /\ Len(chain.nodes) = ChainLength)

\* C16 witness: AddNode has just been refused on a full chain.
C16_Witness ==
    /\ ret.op = "AddNode"
    /\ ret.err = "ChainFull"
    /\ Len(chain.nodes) = ChainLength

\* C17: in a chain with nodes, the first node of the list and no other has
\* the head role, the last node and no other has the tail role (so head and
\* tail are one node exactly when the chain has one node), c.head and c.tail
\* point at them, IsHeadNode and IsTailNode answer by their ids, and the
\* next and prev links follow the order of the list.
C17_RoleInvariant ==
    LET n == Len(chain.nodes)
    IN  n >= 1 =>
            /\ { i \in 1..n : chain.nodes[i].IsHead } = {1}
            /\ { i \in 1..n : chain.nodes[i].IsTail } = {n}
            /\ chain.head = 1
            /\ chain.tail = n
            /\ (chain.head = chain.tail) <=> (n = 1)
            /\ \A id \in NodeIDs :
                   /\ IsHeadNode(chain, id) <=> (chain.nodes[1].ID = id)
                   /\ IsTailNode(chain, id) <=> (chain.nodes[n].ID = id)
            /\ \A i \in 1..n :
                   /\ chain.nodes[i].NextNode = IF i < n THEN i + 1 ELSE NoNode
                   /\ chain.nodes[i].PrevNode = IF i > 1 THEN i - 1 ELSE NoNode

\* C17 witness: AddNode has just added a node behind a head and a middle
\* node.
C17_Witness ==
    /\ ret.op = "AddNode"
    /\ ret.err = "ok"
    /\ Len(chain.nodes) >= 3

\* C18: after a successful Initialize, AddNode is refused and the node list,
\* the head and the tail stay as they are.
C18_StaticTopology ==
    LET i == Initialize(chain)
    IN  i.err = "ok" =>
            \A id \in NodeIDs :
                /\ AddNode(i.c, id).err # "ok"
                /\ AddNode(i.c, id).c.nodes = chain.nodes
                /\ AddNode(i.c, id).c.head = chain.head
                /\ AddNode(i.c, id).c.tail = chain.tail

\* C19: Initialize fails with EmptyChain exactly when the chain has no
\* nodes and succeeds otherwise, and either way the step leaves the node
\* list and the block map as they were.
C19_InitializeEmptyChain ==
    [][ret'.op = "Initialize" =>
          /\ ret'.err = IF Len(chain.nodes) = 0 THEN "EmptyChain" ELSE "ok"
          /\ chain'.nodes = chain.nodes
          /\ chain'.blocks = chain.blocks
      ]_vars

\* C19 witness: Initialize has succeeded on a chain that holds a block with
\* a clean and a dirty version.
C19_Witness ==
    /\ ret.op = "Initialize"
    /\ ret.err = "ok"
    /\ \E id \in DOMAIN chain.blocks :
           /\ Len(Versions(id)) >= 2
           /\ CleanVersions(id) # {}
           /\ Cardinality(CleanVersions(id)) < Len(Versions(id))

\* C20: Chain.Delete of an id without an entry fails with NotFound and
\* changes nothing; a Delete that finds the entry succeeds and takes the
\* block with all its versions out of the map, so that a Read right after it
\* fails with NotFound and a Write right after it makes the block anew with
\* the one version 1.
C20_BlockLifecycle ==
    \A id \in BlockIDs :
        LET d == Delete(chain, id)
        IN  IF id \notin DOMAIN chain.blocks
            THEN d.err = "NotFound" /\ d.c = chain
            ELSE /\ d.err = "ok"
                 /\ id \notin DOMAIN d.c.blocks
                 /\ \A other \in DOMAIN chain.blocks \ {id} :
                        other \in DOMAIN d.c.blocks
                            /\ d.c.blocks[other] = chain.blocks[other]
                 /\ Read(d.c, id).err = "NotFound"
                 /\ Read(d.c, id).data = NilBytes
                 /\ \A data \in Payloads, now \in Timestamps :
                        LET metadata == Marshal(NewBlockMetadata(data,
                                                    ServiceMetadataVersion))
                            w == Write(d.c, id, data, metadata, now)
                        IN  w.err = "ok" =>
                                /\ id \in DOMAIN w.c.blocks
                                /\ Len(w.c.blocks[id]) = 1
                                /\ w.c.blocks[id][1].Version = 1
                                /\ w.c.blocks[id][1].Data = data
                                /\ ~w.c.blocks[id][1].Clean

\* C20 witness: a Write has just made a block anew, with version 1 alone,
\* while the goroutine of a version of the deleted block has yet to run and
\* the other block id has no entry.
C20_Witness ==
    /\ ret.op = "Write"
    /\ ret.err = "ok"
    /\ DOMAIN chain.blocks = {ret.id}
    /\ Len(Versions(ret.id)) = 1
    /\ chain.orphaned > 0
    /\ Cardinality(chain.pending) = 1

\* The versions of all blocks of the chain, one pair for each.
AllVersions(c) ==
    UNION { { <<id, i>> : i \in 1..Len(c.blocks[id]) } : id \in DOMAIN c.blocks }

\* C21: Chain.GetStats is read-only and exact: none of its steps changes the
\* nodes, the blocks, their versions or the clean flags, and the map it
\* returns holds the number of nodes, the number of block entries and the
\* number of versions of all blocks of the chain as it is at the return, which
\* is what the call taken in one step returns.
C21_GetStatsReadOnlyExact ==
    [][/\ ret'.op \in {"GetStats.rlock", "GetStats.range", "GetStats"} =>
              /\ chain'.nodes = chain.nodes
              /\ chain'.head = chain.head
              /\ chain'.tail = chain.tail
              /\ chain'.blocks = chain.blocks
       /\ ret'.op = "GetStats" =>
              /\ ret'.err = "ok"
              /\ ret'.stats.node_count = Len(chain'.nodes)
              /\ ret'.stats.block_count = Cardinality(DOMAIN chain'.blocks)
              /\ ret'.stats.total_versions = Cardinality(AllVersions(chain'))
              /\ ret'.stats = GetStats(chain').stats
      ]_vars

\* C21 witness: GetStats has returned the count of three versions in two
\* blocks, a version of which a goroutine has marked.
C21_Witness ==
    /\ ret.op = "GetStats"
    /\ ret.stats.block_count = 2
    /\ ret.stats.total_versions = 3
    /\ \E id \in DOMAIN chain.blocks : CleanVersions(id) # {}

\* What a caller sees of a LocalStorage.ReadBlock.
Outcome(r) == [err |-> r.err, data |-> r.data, metadata |-> r.metadata]

\* The metadata the block service passes for a payload.
MetadataOf(data) == Marshal(NewBlockMetadata(data, ServiceMetadataVersion))

\* A block half on the disk: one of its two files without the other.
HalfWritten(s, id) ==
    Exists(s, getBlockPath(id)) # Exists(s, getMetadataPath(id))

\* C22: a LocalStorage.WriteBlock whose data write succeeds and whose
\* metadata write fails returns an error and leaves neither the data file of
\* the id nor a block half on the disk.
C22_NoOrphanAfterFailedMetadataWrite ==
    \A id \in LocalBlockIDs, data \in Payloads :
        LET w == StorageWriteBlock(store, id, data, MetadataOf(data), "meta")
        IN  getBlockPath(id).dir \in store.dirs =>
                /\ w.err # "ok"
                /\ ~Exists(w.s, getBlockPath(id))
                /\ ~HalfWritten(w.s, id)

\* C23: LocalStorage.ReadBlock of an id whose data file is not on the disk
\* fails with NotFound, whatever the cache holds.
C23_ReadAbsentIsNotFound ==
    \A id \in LocalBlockIDs :
        ~Exists(store, getBlockPath(id)) =>
            StorageReadBlock(store, id).err = "NotFound"

C25_ShardingIsTotal ==
    store.dirs = ShardDirs =>
        \A id \in LocalBlockIDs, data \in Payloads :
            LET w == StorageWriteBlock(store, id, data, MetadataOf(data), "none")
                r == StorageReadBlock(w.s, id)
            IN  /\ getBlockPath(id).dir \in store.dirs
                /\ w.err = "ok"
                /\ r.err = "ok"
                /\ r.data = data

\* C27: two different block ids have different data files and different
\* metadata files, and a WriteBlock or a DeleteBlock on one of them leaves
\* what ReadBlock returns for the other as it was.
C27_DistinctIdsDistinctFiles ==
    \A id \in LocalBlockIDs, other \in LocalBlockIDs :
        id # other =>
            /\ getBlockPath(id) # getBlockPath(other)
            /\ getMetadataPath(id) # getMetadataPath(other)
            /\ \A data \in Payloads :
                   Outcome(StorageReadBlock(
                       StorageWriteBlock(store, id, data, MetadataOf(data),
                                         "none").s, other))
                       = Outcome(StorageReadBlock(store, other))
            /\ Outcome(StorageReadBlock(StorageDeleteBlock(store, id).s, other))
                   = Outcome(StorageReadBlock(store, other))

\* C28: the cache is transparent: ReadBlock returns the same data and
\* metadata, or the same error, on the store as it is and on the store after
\* a Flush.
C28_CacheIsTransparent ==
    \A id \in LocalBlockIDs :
        Outcome(StorageReadBlock(Flush(store).s, id))
            = Outcome(StorageReadBlock(store, id))

\* C26: the cache map of the local store is never written by one call while
\* another call reads or writes it: no ReadBlock stands before its
\* assignment to s.cache while another call is before its lookup or its own
\* assignment.
C26_NoCacheRace ==
    \A w \in DOMAIN store.calls :
        store.calls[w].pc = "Store" => AtTheMap(store, w) = {}

\* The node ids of a chain, head first.
NodeOrder(c) == [i \in 1..Len(c.nodes) |-> c.nodes[i].ID]

\* C29: the nodes of one cluster list build the same chain: when a node of
\* the list has built its chain from it, every other node of the list
\* building from the same list gets the same node order, the same head and the same
\* tail, and the two do not both take themselves for the head.
C29_SameChainOnEveryNode ==
    (ret.op = "NewStorageNode" /\ ret.err = "ok") =>
        \A other \in { ret.nodes[i] : i \in 1..Len(ret.nodes) } :
            LET self == ret.id[1]
                o == NewStorageNode(other, ret.nodes)
            IN  (o.err = "ok" /\ \E i \in 1..Len(ret.nodes) : ret.nodes[i] = self) =>
                    /\ NodeOrder(o.c) = NodeOrder(chain)
                    /\ \A id \in ClusterNodeIDs :
                           /\ IsHeadNode(o.c, id) = IsHeadNode(chain, id)
                           /\ IsTailNode(o.c, id) = IsTailNode(chain, id)
                    /\ other # self =>
                           ~(IsHeadNode(o.c, other) /\ IsHeadNode(chain, self))

\* What the local store holds for a block id: its two files and its cache
\* entry.
LocalOf(s, id) ==
    [files |-> [f \in {getBlockPath(id), getMetadataPath(id)} \cap DOMAIN s.files
                   |-> s.files[f]],
     cache |-> IF id \in DOMAIN s.cache THEN <<s.cache[id]>> ELSE <<>>]

\* The version list a chain holds for a block id.
VersionsOf(c, id) == IF id \in DOMAIN c.blocks THEN c.blocks[id] ELSE <<>>

\* C30: a Service.WriteBlock that returns an error on a node whose store
\* is initialized has changed neither the chain's version list of the id
\* nor what the local store holds for the id.
C30_WriteBlockAllOrNothing ==
    store.dirs = ShardDirs =>
        \A id \in BlockIDs, data \in Payloads, fault \in {"none", "data", "meta"},
           now \in SameInstant :
            LET r == ServiceWriteBlock(chain, store, craqChain, id, data,
                                       fault, now)
            IN  r.err # "ok" =>
                    /\ VersionsOf(r.c, id) = VersionsOf(chain, id)
                    /\ LocalOf(r.s, id) = LocalOf(store, id)

\* The version at place i of block id is dirty before the step and clean
\* after it.
TurnsClean(id, i) ==
    /\ id \in DOMAIN chain.blocks
    /\ id \in DOMAIN chain'.blocks
    /\ i <= Len(chain.blocks[id])
    /\ i <= Len(chain'.blocks[id])
    /\ ~chain.blocks[id][i].Clean
    /\ chain'.blocks[id][i].Clean

\* C32: a clean-marking step left over from before a Delete never marks a
\* version of the block written again under the same id: every step that
\* turns a version clean is the step of a goroutine started by a Write on
\* the block now in the map, for that version number, and the step of a
\* goroutine of a deleted block changes no block.
C32_NoCleanMarkAcrossDelete ==
    [][/\ \A id \in BlockIDs, i \in 1..(MaxVersions + 1) :
              TurnsClean(id, i) =>
                  /\ chain'.orphaned = chain.orphaned
                  /\ [blockID |-> id,
                      nextVersion |-> chain.blocks[id][i].Version]
                         \in chain.pending \ chain'.pending
       /\ chain'.orphaned < chain.orphaned => chain'.blocks = chain.blocks
      ]_vars

\* C32 witness: the goroutine of a deleted block has just run while the
\* block written again under its id holds version 1, still dirty, with its
\* own goroutine waiting.
C32_Witness ==
    /\ ret.op = "goroutine"
    /\ ret.id = <<>>
    /\ \E id \in DOMAIN chain.blocks :
           /\ Len(chain.blocks[id]) >= 1
           /\ chain.blocks[id][1].Version = 1
           /\ ~chain.blocks[id][1].Clean
           /\ [blockID |-> id, nextVersion |-> 1] \in chain.pending

\* The version number of the version Chain.Read returns for a block id of
\* the map.
ReadVersion(c, id) == c.blocks[id][Read(c, id).idx].Version

\* C33: as long as a block is not deleted, the version Chain.Read returns
\* for it never gets older: no step that leaves the block in the map, a
\* Write or a clean-marking step in any order, lowers the version number
\* Read returns.
C33_MonotonicReads ==
    [][\A id \in BlockIDs :
          (/\ id \in DOMAIN chain.blocks
           /\ id \in DOMAIN chain'.blocks
           /\ Read(chain, id).err = "ok"
           /\ Read(chain', id).err = "ok")
              => ReadVersion(chain', id) >= ReadVersion(chain, id)
      ]_vars

\* C33 witness: Read has just returned version 2 of a block, marked clean
\* before version 1, which is still dirty.
C33_Witness ==
    /\ ret.op = "Read"
    /\ ret.err = "ok"
    /\ ret.idx = 2
    /\ ret.id \in DOMAIN chain.blocks
    /\ ~chain.blocks[ret.id][1].Clean
    /\ chain.blocks[ret.id][2].Clean
    /\ chain.blocks[ret.id][2].Version = 2

\* C31: no call waits for ever for the mutex of the service, of the chain,
\* of a block or of the local store: under fair scheduling every call of
\* the coordinator or of the chain that has started returns (or ends with
\* the process), and every clean-marking goroutine of a block in the map
\* gets its block.mu and ends, or is cut off by a Delete.
C31_EveryCallReturns ==
    /\ \A w \in Callers :
           (w \in DOMAIN chain.calls) ~> (w \notin DOMAIN chain.calls)
    /\ \A g \in SyncGoroutines :
           (g \in chain.pending) ~> (g \notin chain.pending)

\* C31 witness: a coordinator WriteBlock holds the service mutex and waits
\* for the chain mutex, which a GetStats holds inside the section under a
\* block.mu, while a goroutine waits for that block.mu.
C31_Witness ==
    \E w \in DOMAIN chain.calls, v \in DOMAIN chain.calls :
        /\ chain.calls[w].op = "WriteBlock"
        /\ chain.calls[w].pc = "c.mu"
        /\ chain.calls[v].op = "GetStats"
        /\ chain.calls[v].pc = "block"
        /\ \E g \in chain.waking : g.blockID = chain.calls[v].blockID

====
